---- MODULE Spec2Model ----
(***************************************************************************)
(* Model of phased_release_messenger.py: one run of main() (read the track *)
(* state, gate on the release status, validate the rollout schedule, pick  *)
(* the next step, POST the notification) and the pure helpers it uses.     *)
(*                                                                         *)
(* Strings are sequences of one-character strings.  Rollout fractions are  *)
(* kept in basis points (1/10000), so step / 100.0 is step * 100 and a     *)
(* userFraction such as 0.005 is representable although it is not a whole  *)
(* percentage.  An optional value (Python None, a missing dict key) is the *)
(* empty sequence, a present value v is <<v>>.                             *)
(***************************************************************************)
EXTENDS Integers, Sequences, FiniteSets, TLC

VARIABLES
    rollout_increase_steps,      \* sys.argv[2], the raw schedule string
    track_info,                  \* what get_info_for_track returns
    auth_failure,                \* which API call raises AccessTokenRefreshError
    pc,                          \* position of the run inside main()
    idx,                         \* 1-based position of the for loop in releases
    rollout_steps,               \* result of parse_rollout_steps
    current_rollout_percentage,  \* release['userFraction'] once read
    new_rollout_percentage,      \* the selected step, or None
    posts,                       \* payloads handed to send_post, in order
    responses,                   \* responses requests.post returned, in order
    parsed_for,                  \* releases for which parse_rollout_steps ran
    exitCode,                    \* process exit code (meaningful at pc = "done")
    exitVia                      \* which exit ended the run

vars == <<rollout_increase_steps, track_info, auth_failure, pc, idx,
          rollout_steps, current_rollout_percentage, new_rollout_percentage,
          posts, responses, parsed_for, exitCode, exitVia>>

---------------------------------------------------------------------------
(* Bounds *)

MaxRawLen == 5

MaxReleases == 2

(* Program constants *)

MaxPercent == 100

PercentDivisor == 100

None == <<>>

Some(v) == <<v>>

---------------------------------------------------------------------------
(* Characters *)

Digits == {"0", "1", "2", "3", "4", "5", "6", "7", "8", "9"}

Whitespace == {" "}

DigitVal(c) ==
    CASE c = "0" -> 0 [] c = "1" -> 1 [] c = "2" -> 2 [] c = "3" -> 3
      [] c = "4" -> 4 [] c = "5" -> 5 [] c = "6" -> 6 [] c = "7" -> 7
      [] c = "8" -> 8 [] c = "9" -> 9

(* str.split(","): always at least one token; "" splits to [""]. *)
RECURSIVE split(_)
split(s) ==
    IF \A i \in 1..Len(s) : s[i] # ","
    THEN <<s>>
    ELSE LET k == CHOOSE i \in 1..Len(s) :
                      s[i] = "," /\ \A j \in 1..(i - 1) : s[j] # ","
         IN  <<SubSeq(s, 1, k - 1)>> \o split(SubSeq(s, k + 1, Len(s)))

(* str.strip(): drops leading and trailing whitespace. *)
RECURSIVE strip(_)
strip(s) ==
    IF s = <<>> THEN s
    ELSE IF Head(s) \in Whitespace THEN strip(Tail(s))
    ELSE IF s[Len(s)] \in Whitespace THEN strip(SubSeq(s, 1, Len(s) - 1))
    ELSE s

RECURSIVE DecimalValue(_, _)
DecimalValue(s, acc) ==
    IF s = <<>> THEN acc
    ELSE IF Head(s) = "_" THEN DecimalValue(Tail(s), acc)
    ELSE DecimalValue(Tail(s), acc * 10 + DigitVal(Head(s)))

(* The digit part of a Python integer literal given to int(): digits with  *)
(* single underscores allowed between digits only.                         *)
WellFormedDigits(s) ==
    /\ s # <<>>
    /\ \A i \in 1..Len(s) : s[i] \in Digits \cup {"_"}
    /\ s[1] # "_"
    /\ s[Len(s)] # "_"
    /\ \A i \in 1..(Len(s) - 1) : ~(s[i] = "_" /\ s[i + 1] = "_")

(* int(s) for an already stripped string: optional sign, then digits.      *)
(* ok = FALSE models ValueError.                                           *)
int(s) ==
    LET signed == s # <<>> /\ s[1] \in {"+", "-"}
        body   == IF signed THEN Tail(s) ELSE s
    IN  IF WellFormedDigits(body)
        THEN [ok |-> TRUE,
              val |-> IF signed /\ s[1] = "-"
                      THEN 0 - DecimalValue(body, 0)
                      ELSE DecimalValue(body, 0)]
        ELSE [ok |-> FALSE, val |-> 0]

(* step / 100.0, in basis points. *)
Fraction(step) == step * (10000 \div PercentDivisor)

---------------------------------------------------------------------------
(* parse_rollout_steps: the result is [err, steps]; err = "none" is a      *)
(* normal return, any other err is the SystemExit raised.                  *)

ParsedInts(raw) ==
    LET toks == split(raw)
    IN  [i \in 1..Len(toks) |-> int(strip(toks[i]))]

(* Variant: the order test written with > instead of >=. *)
parse_rollout_steps_accepts_equal(rollout_steps_raw) ==
    LET ints  == ParsedInts(rollout_steps_raw)
        steps == [i \in 1..Len(ints) |-> ints[i].val]
    IN  IF \E i \in 1..Len(ints) : ~ints[i].ok
        THEN [err |-> "InvalidFormat", steps |-> <<>>]
        ELSE IF \E i \in 1..Len(steps) : steps[i] < 0 \/ steps[i] > MaxPercent
        THEN [err |-> "OutOfRange", steps |-> <<>>]
        ELSE IF \E i \in 1..(Len(steps) - 1) : steps[i] > steps[i + 1]
        THEN [err |-> "NotMonotonic", steps |-> <<>>]
        ELSE [err |-> "none",
              steps |-> [i \in 1..Len(steps) |-> Fraction(steps[i])]]

(* Variant: the order test placed before the range test. *)
parse_rollout_steps_order_first(rollout_steps_raw) ==
    LET ints  == ParsedInts(rollout_steps_raw)
        steps == [i \in 1..Len(ints) |-> ints[i].val]
    IN  IF \E i \in 1..Len(ints) : ~ints[i].ok
        THEN [err |-> "InvalidFormat", steps |-> <<>>]
        ELSE IF \E i \in 1..(Len(steps) - 1) : steps[i] >= steps[i + 1]
        THEN [err |-> "NotMonotonic", steps |-> <<>>]
        ELSE IF \E i \in 1..Len(steps) : steps[i] < 0 \/ steps[i] > MaxPercent
        THEN [err |-> "OutOfRange", steps |-> <<>>]
        ELSE [err |-> "none",
              steps |-> [i \in 1..Len(steps) |-> Fraction(steps[i])]]

parse_rollout_steps(rollout_steps_raw) ==
    LET ints  == ParsedInts(rollout_steps_raw)
        steps == [i \in 1..Len(ints) |-> ints[i].val]
    IN  IF \E i \in 1..Len(ints) : ~ints[i].ok
        THEN [err |-> "InvalidFormat", steps |-> <<>>]
        ELSE IF \E i \in 1..Len(steps) : steps[i] < 0 \/ steps[i] > MaxPercent
        THEN [err |-> "OutOfRange", steps |-> <<>>]
        ELSE IF \E i \in 1..(Len(steps) - 1) : steps[i] >= steps[i + 1]
        THEN [err |-> "NotMonotonic", steps |-> <<>>]
        ELSE [err |-> "none",
              steps |-> [i \in 1..Len(steps) |-> Fraction(steps[i])]]

(* The selection loop of main: the first step, in list order, that is      *)
(* strictly greater than the current fraction; None when the loop ends     *)
(* without a break.                                                        *)
(* Variant: the comparison written with >= instead of >. *)
RECURSIVE select_next_step_or_equal(_, _)
select_next_step_or_equal(steps, current) ==
    IF steps = <<>> THEN None
    ELSE IF Head(steps) >= current THEN Some(Head(steps))
    ELSE select_next_step_or_equal(Tail(steps), current)

RECURSIVE select_next_step(_, _)
select_next_step(steps, current) ==
    IF steps = <<>> THEN None
    ELSE IF Head(steps) > current THEN Some(Head(steps))
    ELSE select_next_step(Tail(steps), current)

---------------------------------------------------------------------------
(* Inputs of a run *)

Statuses == {"completed", "halted", "inProgress", "draft"}

(* userFraction values the track may report (0.05, 0.2, 1.0); the key may  *)
(* be missing from the release.                                            *)
UserFractions == {Some(500), Some(2000), Some(10000)}

Releases == [status : Statuses, userFraction : UserFractions \cup {None}]

RECURSIVE SeqsUpTo(_, _)
SeqsUpTo(S, n) ==
    IF n = 0 THEN {<<>>}
    ELSE LET shorter == SeqsUpTo(S, n - 1)
         IN  shorter \cup {Append(q, x) : q \in shorter, x \in S}

TrackInfos ==
    {[has_releases |-> FALSE, releases |-> <<>>]}
        \cup {[has_releases |-> TRUE, releases |-> r] :
                  r \in SeqsUpTo(Releases, MaxReleases)}

(* Raw schedules given on the command line. *)
RawSchedules ==
    { <<"1", ",", "2", "0", ",", "5", "0", ",", "1", "0", "0">>,
      <<"5">>,
      <<"+", "1", ",", " ", "2", "_", "0", " ">>,
      <<"1", ",", "x", ",", "5", "0">>,
      <<"1", ",", "1", "5", "0">>,
      <<"5", "0", ",", "2", "0">>,
      <<"1", ",", "2", "0", ",", "2", "0", ",", "5", "0">>,
      <<"1", ",">>,
      <<>> }

AuthFailures == {"none", "insert", "get"}

SuccessCodes == {200, 202}

(* What requests.post does: raise (no response), or return a response with *)
(* a status code and a body that response.json() can or cannot decode.     *)
PostOutcomes ==
    {[raised |-> TRUE, status_code |-> 0, json_body |-> FALSE]}
        \cup [raised : {FALSE}, status_code : {200, 202, 400, 500},
              json_body : BOOLEAN]

ValidationErrors == {"InvalidFormat", "OutOfRange", "NotMonotonic"}

TerminalStatuses == {"completed", "halted"}

---------------------------------------------------------------------------
(* The run *)

Init ==
    /\ rollout_increase_steps \in RawSchedules
    /\ track_info \in TrackInfos
    /\ auth_failure \in AuthFailures
    /\ pc = "start"
    /\ idx = 0
    /\ rollout_steps = <<>>
    /\ current_rollout_percentage = None
    /\ new_rollout_percentage = None
    /\ posts = <<>>
    /\ responses = <<>>
    /\ parsed_for = {}
    /\ exitCode = 0
    /\ exitVia = "running"

(* The process ends: sys.exit(code), SystemExit(message) (exit code 1), an *)
(* uncaught exception (exit code 1), or main returning (exit code 0).      *)
Exit(code, via) ==
    /\ pc' = "done"
    /\ exitCode' = code
    /\ exitVia' = via

Running == UNCHANGED <<exitCode, exitVia>>

(* Variant: the credentials error of the insert call is ignored. *)
get_edit_id_swallows_error ==
    /\ pc = "start"
    /\ pc' = "got_edit_id"
    /\ Running
    /\ UNCHANGED <<rollout_increase_steps, track_info, auth_failure, idx,
                   rollout_steps, current_rollout_percentage,
                   new_rollout_percentage, posts, responses, parsed_for>>

(* edit_id = get_edit_id(...), inside the try of main. *)
get_edit_id ==
    /\ pc = "start"
    /\ IF auth_failure = "insert"
       THEN Exit(1, "CredentialsInvalid")
       ELSE pc' = "got_edit_id" /\ Running
    /\ UNCHANGED <<rollout_increase_steps, track_info, auth_failure, idx,
                   rollout_steps, current_rollout_percentage,
                   new_rollout_percentage, posts, responses, parsed_for>>

(* track_info = get_info_for_track(...), then the no-releases exit. *)
get_info_for_track ==
    /\ pc = "got_edit_id"
    /\ IF auth_failure = "get"
       THEN Exit(1, "CredentialsInvalid") /\ UNCHANGED idx
       ELSE IF ~track_info.has_releases \/ track_info.releases = <<>>
       THEN Exit(0, "no_releases") /\ UNCHANGED idx
       ELSE pc' = "loop" /\ idx' = 1 /\ Running
    /\ UNCHANGED <<rollout_increase_steps, track_info, auth_failure,
                   rollout_steps, current_rollout_percentage,
                   new_rollout_percentage, posts, responses, parsed_for>>

(* Variant: the halted gate is missing. *)
main_release_status_misses_halted ==
    /\ pc = "loop"
    /\ IF idx > Len(track_info.releases)
       THEN Exit(0, "returned")
       ELSE IF track_info.releases[idx].status = "completed"
       THEN Exit(0, "completed")
       ELSE pc' = "in_progress" /\ Running
    /\ UNCHANGED <<rollout_increase_steps, track_info, auth_failure, idx,
                   rollout_steps, current_rollout_percentage,
                   new_rollout_percentage, posts, responses, parsed_for>>

(* Head of the for loop: take the next release, or leave the loop and      *)
(* return from main; then the completed / halted gate.                     *)
main_release_status ==
    /\ pc = "loop"
    /\ IF idx > Len(track_info.releases)
       THEN Exit(0, "returned")
       ELSE IF track_info.releases[idx].status = "completed"
       THEN Exit(0, "completed")
       ELSE IF track_info.releases[idx].status = "halted"
       THEN Exit(0, "halted")
       ELSE pc' = "in_progress" /\ Running
    /\ UNCHANGED <<rollout_increase_steps, track_info, auth_failure, idx,
                   rollout_steps, current_rollout_percentage,
                   new_rollout_percentage, posts, responses, parsed_for>>

(* Variant: a validation error ends the process with sys.exit(0). *)
main_parse_exits_zero ==
    /\ pc = "in_progress"
    /\ parsed_for' = parsed_for \cup {idx}
    /\ LET r == parse_rollout_steps(rollout_increase_steps)
       IN  IF r.err # "none"
           THEN Exit(0, r.err) /\ UNCHANGED rollout_steps
           ELSE pc' = "parsed" /\ rollout_steps' = r.steps /\ Running
    /\ UNCHANGED <<rollout_increase_steps, track_info, auth_failure, idx,
                   current_rollout_percentage, new_rollout_percentage,
                   posts, responses>>

(* rollout_steps = parse_rollout_steps(rollout_increase_steps); a          *)
(* SystemExit(message) ends the process with exit code 1.                  *)
main_parse ==
    /\ pc = "in_progress"
    /\ parsed_for' = parsed_for \cup {idx}
    /\ LET r == parse_rollout_steps(rollout_increase_steps)
       IN  IF r.err # "none"
           THEN Exit(1, r.err) /\ UNCHANGED rollout_steps
           ELSE pc' = "parsed" /\ rollout_steps' = r.steps /\ Running
    /\ UNCHANGED <<rollout_increase_steps, track_info, auth_failure, idx,
                   current_rollout_percentage, new_rollout_percentage,
                   posts, responses>>

(* current_rollout_percentage = release['userFraction'] (KeyError when the *)
(* key is missing), then the selection loop.                               *)
main_select ==
    /\ pc = "parsed"
    /\ LET uf == track_info.releases[idx].userFraction
       IN  IF uf = None
           THEN /\ Exit(1, "KeyError")
                /\ UNCHANGED <<current_rollout_percentage,
                               new_rollout_percentage>>
           ELSE /\ current_rollout_percentage' = uf
                /\ new_rollout_percentage' = select_next_step(rollout_steps, uf[1])
                /\ pc' = "selected"
                /\ Running
    /\ UNCHANGED <<rollout_increase_steps, track_info, auth_failure, idx,
                   rollout_steps, posts, responses, parsed_for>>

(* send_post(url, payload) with the outcome of requests.post: the call is  *)
(* recorded in posts; a returned response is recorded in responses;        *)
(* response.json() runs only on a 200 / 202 and raises on a body that is   *)
(* not JSON.  On a normal return the for loop moves to the next release.   *)
send_post(payload, outcome) ==
    /\ posts' = Append(posts, payload)
    /\ IF outcome.raised
       THEN Exit(1, "ConnectionError") /\ UNCHANGED <<responses, idx>>
       ELSE /\ responses' = Append(responses, outcome)
            /\ IF outcome.status_code \in SuccessCodes /\ ~outcome.json_body
               THEN Exit(1, "JSONDecodeError") /\ UNCHANGED idx
               ELSE pc' = "loop" /\ idx' = idx + 1 /\ Running

(* The payload is built before send_post is called:                        *)
(* str(new_rollout_percentage * 100) raises TypeError on None.             *)
main_send_post ==
    /\ pc = "selected"
    /\ IF new_rollout_percentage = None
       THEN /\ Exit(1, "TypeError")
            /\ UNCHANGED <<posts, responses, idx>>
       ELSE \E outcome \in PostOutcomes :
                send_post([release |-> idx,
                           current |-> current_rollout_percentage,
                           new |-> new_rollout_percentage], outcome)
    /\ UNCHANGED <<rollout_increase_steps, track_info, auth_failure,
                   rollout_steps, current_rollout_percentage,
                   new_rollout_percentage, parsed_for>>

Next ==
    \/ get_edit_id
    \/ get_info_for_track
    \/ main_release_status
    \/ main_parse
    \/ main_select
    \/ main_send_post

Spec == Init /\ [][Next]_vars

---------------------------------------------------------------------------
(* The pure functions on their own: parse_rollout_steps applied to every   *)
(* string over RawAlphabet up to MaxRawLen characters, then the selection  *)
(* loop applied to every accepted schedule and every fraction of           *)
(* CurrentFractions.                                                       *)

RawAlphabet == {"0", "1", "5", ",", " ", "-", "x"}

(* 0.0, 0.005, 0.01, 0.05, 0.0501, 0.1, 0.15, 0.5, 0.55, 1.0 *)
CurrentFractions == {0, 50, 100, 500, 501, 1000, 1500, 5000, 5500, 10000}

InitPure ==
    /\ rollout_increase_steps \in SeqsUpTo(RawAlphabet, MaxRawLen)
    /\ track_info = [has_releases |-> FALSE, releases |-> <<>>]
    /\ auth_failure = "none"
    /\ pc = "call_parse"
    /\ idx = 0
    /\ rollout_steps = <<>>
    /\ current_rollout_percentage = None
    /\ new_rollout_percentage = None
    /\ posts = <<>>
    /\ responses = <<>>
    /\ parsed_for = {}
    /\ exitCode = 0
    /\ exitVia = "running"

call_parse_rollout_steps ==
    /\ pc = "call_parse"
    /\ LET r == parse_rollout_steps(rollout_increase_steps)
       IN  /\ rollout_steps' = r.steps
           /\ exitVia' = r.err
           /\ exitCode' = IF r.err = "none" THEN 0 ELSE 1
           /\ pc' = IF r.err = "none" THEN "parse_returned" ELSE "done"
    /\ UNCHANGED <<rollout_increase_steps, track_info, auth_failure, idx,
                   current_rollout_percentage, new_rollout_percentage,
                   posts, responses, parsed_for>>

call_select_next_step ==
    /\ pc = "parse_returned"
    /\ \E current \in CurrentFractions :
           /\ current_rollout_percentage' = Some(current)
           /\ new_rollout_percentage' = select_next_step(rollout_steps, current)
    /\ pc' = "select_returned"
    /\ UNCHANGED <<rollout_increase_steps, track_info, auth_failure, idx,
                   rollout_steps, posts, responses, parsed_for,
                   exitCode, exitVia>>

NextPure ==
    \/ call_parse_rollout_steps
    \/ call_select_next_step

SpecPure == InitPure /\ [][NextPure]_vars

---------------------------------------------------------------------------
(* Properties *)

Tokens == split(rollout_increase_steps)

TokenIsInteger(tok) == int(strip(tok)).ok

TokenValue(tok) == int(strip(tok)).val

AllIntegers == \A i \in 1..Len(Tokens) : TokenIsInteger(Tokens[i])

AllInRange ==
    \A i \in 1..Len(Tokens) :
        TokenValue(Tokens[i]) >= 0 /\ TokenValue(Tokens[i]) <= 100

StrictlyIncreasing ==
    \A i \in 1..(Len(Tokens) - 1) :
        TokenValue(Tokens[i]) < TokenValue(Tokens[i + 1])

ParseReturned == pc \in {"parse_returned", "select_returned", "done"}

(* C1: parse_rollout_steps succeeds iff every token is an integer, every   *)
(* integer is in [0,100] and each is strictly greater than the one before  *)
(* it; on success the result has the length and order of the input and     *)
(* its i-th element is the i-th integer divided by 100.                    *)
C1_ParseAcceptsExactlyValid ==
    ParseReturned =>
        /\ (exitVia = "none") <=>
               (AllIntegers /\ AllInRange /\ StrictlyIncreasing)
        /\ exitVia = "none" =>
               /\ Len(rollout_steps) = Len(Tokens)
               /\ \A i \in 1..Len(Tokens) :
                      rollout_steps[i] * 100 = TokenValue(Tokens[i]) * 10000

(* The schedule 5,10 is accepted and returned as 0.05, 0.1. *)
C1_Witness ==
    /\ pc = "parse_returned"
    /\ rollout_increase_steps = <<"5", ",", "1", "0">>
    /\ rollout_steps = <<500, 1000>>

(* C10: a rejected input gets exactly one error kind by precedence over    *)
(* the whole token list: InvalidFormat if any token is not an integer,     *)
(* otherwise OutOfRange if any integer is outside [0,100], otherwise       *)
(* NotMonotonic exactly when some adjacent pair is equal or decreasing.    *)
C10_ErrorPrecedence ==
    ParseReturned =>
        exitVia =
            IF ~AllIntegers THEN "InvalidFormat"
            ELSE IF ~AllInRange THEN "OutOfRange"
            ELSE IF ~StrictlyIncreasing THEN "NotMonotonic"
            ELSE "none"

(* 150,1 is out of range and out of order: OutOfRange is reported. *)
C10_Witness ==
    /\ pc = "done"
    /\ rollout_increase_steps = <<"1", "5", "0", ",", "1">>
    /\ exitVia = "OutOfRange"

StepsGreater ==
    {i \in 1..Len(rollout_steps) :
         rollout_steps[i] > current_rollout_percentage[1]}

(* C2: the selection returns the first schedule element strictly greater   *)
(* than the current fraction, which is also the smallest such element;     *)
(* none exactly when no element is strictly greater; never an element      *)
(* equal to the current fraction.                                          *)
C2_SelectFirstStrictlyGreater ==
    pc = "select_returned" =>
        /\ (new_rollout_percentage = None) <=> (StepsGreater = {})
        /\ new_rollout_percentage # None =>
               /\ new_rollout_percentage # current_rollout_percentage
               /\ \E i \in StepsGreater :
                      /\ new_rollout_percentage = Some(rollout_steps[i])
                      /\ \A j \in StepsGreater :
                             i <= j /\ rollout_steps[i] <= rollout_steps[j]

(* current = 0.05 on the schedule 5,10: the equal step is skipped. *)
C2_Witness ==
    /\ pc = "select_returned"
    /\ rollout_steps = <<500, 1000>>
    /\ current_rollout_percentage = Some(500)
    /\ new_rollout_percentage = Some(1000)

ReleaseStatus(i) == track_info.releases[i].status

(* C3: an in-progress release at or above every step of a valid schedule   *)
(* is a normal outcome: the decision (current, none) is handed to the      *)
(* notifier (one POST) and the run does not end with an error.             *)
C3_ExhaustedScheduleNotifies ==
    [][(pc = "selected" /\ new_rollout_percentage = None) =>
           /\ Len(posts') = Len(posts) + 1
           /\ posts'[Len(posts')].current = current_rollout_percentage
           /\ posts'[Len(posts')].new = None
           /\ exitCode' = 0]_vars

(* C4: at most one notification POST per run, and only for the first       *)
(* release of the list.                                                    *)
C4_AtMostOnePost ==
    /\ Len(posts) <= 1
    /\ \A k \in 1..Len(posts) : posts[k].release = 1

(* C5: a completed or halted release is gated before schedule validation:  *)
(* parse_rollout_steps is not invoked for it, nothing is posted for it and *)
(* the process exits with code 0, whatever the raw schedule.               *)
C5_TerminalStatusShortCircuits ==
    [][(/\ pc = "loop"
        /\ idx <= Len(track_info.releases)
        /\ ReleaseStatus(idx) \in TerminalStatuses) =>
           /\ pc' = "done"
           /\ exitCode' = 0
           /\ exitVia' = ReleaseStatus(idx)
           /\ parsed_for' = parsed_for
           /\ idx \notin parsed_for'
           /\ posts' = posts]_vars

(* A halted first release with a malformed schedule: exit 0, parser unused. *)
C5_Witness ==
    /\ pc = "done"
    /\ exitVia = "halted"
    /\ idx = 1
    /\ parse_rollout_steps(rollout_increase_steps).err = "InvalidFormat"
    /\ parsed_for = {}

(* C6: a run that ends with a schedule-validation error has issued no      *)
(* POST and ends with a non-zero exit code.                                *)
C6_ValidationErrorBeforeAnyPost ==
    exitVia \in ValidationErrors =>
        /\ pc = "done"
        /\ exitCode # 0
        /\ posts = <<>>
        /\ responses = <<>>

(* Two in-progress releases and a non-increasing schedule. *)
C6_Witness ==
    /\ pc = "done"
    /\ exitVia = "NotMonotonic"
    /\ Len(track_info.releases) = 2
    /\ \A i \in 1..2 : ReleaseStatus(i) = "inProgress"

(* C7: a run that ends through the completed, halted or no-releases exit   *)
(* ends with exit code 0 and has issued no POST.                           *)
C7_TerminalExitsSendNothing ==
    (pc = "done" /\ exitVia \in {"completed", "halted", "no_releases"}) =>
        /\ exitCode = 0
        /\ posts = <<>>

(* C8: a credentials error from the edit-insert or track-get call ends the *)
(* run with a non-zero exit, by an error other than the three validation   *)
(* errors, and no POST is issued.                                          *)
C8_CredentialsErrorIsFatal ==
    auth_failure # "none" =>
        /\ posts = <<>>
        /\ pc \in {"start", "got_edit_id", "done"}
        /\ pc = "done" =>
               /\ exitVia = "CredentialsInvalid"
               /\ exitVia \notin ValidationErrors
               /\ exitCode # 0

(* The track-get call fails on a track with an in-progress release. *)
C8_Witness ==
    /\ pc = "done"
    /\ auth_failure = "get"
    /\ exitVia = "CredentialsInvalid"
    /\ Len(track_info.releases) >= 1
    /\ ReleaseStatus(1) = "inProgress"

(* C9: whatever response the POST returns, success status or not, the run  *)
(* continues the same way: same fractions, same next step (the for loop    *)
(* moves on), same exit code.                                              *)
C9_DeliveryDoesNotFeedBack ==
    [][Len(responses') = Len(responses) + 1 =>
           /\ pc' = "loop"
           /\ idx' = idx + 1
           /\ exitCode' = exitCode
           /\ exitVia' = exitVia
           /\ current_rollout_percentage' = current_rollout_percentage
           /\ new_rollout_percentage' = new_rollout_percentage]_vars

====
